---------------------------- MODULE Spec2Model ----------------------------
(***************************************************************************)
(* dictb (src/src/builtout/dictb.py): a dict subclass whose subscript      *)
(* operators ([], []=, del []) and set operators (-, &, |, ^) dispatch on  *)
(* the shape of their argument: a hashable key, a sequence of keys, a set  *)
(* of keys.                                                                *)
(*                                                                         *)
(* Objects that the code mutates or aliases (dictb instances, the right    *)
(* operand of a set operator, the containers the operators return) live in *)
(* a heap and are named by their index in it.  Arguments that the code     *)
(* only reads (keys, values) are immutable records [shape, items].         *)
(***************************************************************************)
EXTENDS Integers, Sequences, FiniteSets

\* Scalar keys are 1 .. MaxKey, scalar values 1 .. MaxVal; list keys and tuple
\* values have at most MaxLen elements.
MaxKey == 2
MaxLen == 2
MaxVal == 2

Keys == 1 .. MaxKey
Ints == 1 .. MaxVal

SeqsUpTo(S, n) == UNION {[1 .. k -> S] : k \in 0 .. n}
Range(s) == {s[i] : i \in DOMAIN s}
Min(a, b) == IF a <= b THEN a ELSE b
Last(S) == CHOOSE i \in S : \A j \in S : j <= i

\* A set's elements in the order its iterator yields them (small ints hash
\* to themselves: ascending).
RECURSIVE SetToSeq(_)
SetToSeq(S) ==
    IF S = {} THEN <<>>
    ELSE LET k == CHOOSE x \in S : \A y \in S : x <= y
         IN  <<k>> \o SetToSeq(S \ {k})

---------------------------------------------------------------------------
(* Python objects passed by value *)

IntObj(n) == [shape |-> "int", items |-> <<n>>]
NoneObj == [shape |-> "NoneType", items |-> <<>>]
TupleObj(s) == [shape |-> "tuple", items |-> s]
ListObj(s) == [shape |-> "list", items |-> s]
SetObj(S) == [shape |-> "set", items |-> SetToSeq(S)]
\* a plain dict used as a key: unhashable, iterable (over its keys), neither a
\* Sequence nor a Set
DictObj(S) == [shape |-> "dict", items |-> SetToSeq(S)]
\* an unhashable object that cannot be iterated
OpaqueObj == [shape |-> "object", items |-> <<>>]

\* isinstance(x, collections.<abc>)
isinstance(x, abc) ==
    CASE abc = "Hashable" -> x.shape \in {"int", "NoneType", "tuple"}
      [] abc = "Sequence" -> x.shape \in {"tuple", "list"}
      [] abc = "Set"      -> x.shape = "set"
      [] abc = "Iterable" -> x.shape \in {"tuple", "list", "set", "dict"}
      [] OTHER            -> FALSE

\* set(key)
set(key) == Range(key.items)

\* the elements a tuple value yields when iterated
elems(value) == [i \in DOMAIN value.items |-> IntObj(value.items[i])]

---------------------------------------------------------------------------
(* The heap *)

NoView == [live |-> FALSE, dict |-> 0, keys |-> {}]
NoGen == [dict |-> 0, it |-> <<>>, pos |-> 0, lazy |-> TRUE, buf |-> <<>>]

\* What an operation hands back: the heap after it, the exception it raised
\* ("" for none) and the value it returned.
Return(h, kind, val, ref, g) ==
    [heap |-> h, exc |-> "", kind |-> kind, val |-> val, ref |-> ref, gen |-> g]
Raise(h, e) ==
    [heap |-> h, exc |-> e, kind |-> "none", val |-> NoneObj, ref |-> 0, gen |-> NoGen]

\* dict.viewkeys(): a view object on dict `id`; a snapshot taken by
\* set(dict.keys()) is a view that is not live.
keys_snapshot(h, id) == [live |-> FALSE, dict |-> id, keys |-> DOMAIN h[id].items]
viewkeys(h, id) == [live |-> TRUE, dict |-> id, keys |-> {}]

\* the elements of a view when it is evaluated
view_elements(h, v) == IF v.live THEN DOMAIN h[v.dict].items ELSE v.keys

\* dictb(items): allocates the instance; its id is Len of the heap returned
__init__(h, items) ==
    LET id == Len(h) + 1
        h1 == Append(h, [cls |-> "dictb", items |-> items, _viewkeys |-> NoView])
    IN  [h1 EXCEPT ![id]._viewkeys = viewkeys(h1, id)]

_viewkeys(h, self) == view_elements(h, h[self]._viewkeys)

---------------------------------------------------------------------------
(* Subscript *)

dict_getitem(h, self, key) ==
    LET k == key.items[1]
    IN  IF key.shape = "int" /\ k \in DOMAIN h[self].items
        THEN Return(h, "value", h[self].items[k], 0, NoGen)
        ELSE Raise(h, "KeyError")

\* (self[k] for k in key), evaluated eagerly into a list
getitem_list_eager(h, self, key) ==
    [dict |-> self, it |-> key.items, pos |-> 0, lazy |-> FALSE,
     buf |-> [i \in DOMAIN key.items |-> h[self].items[key.items[i]]]]
\* (self[k] for k in set(key)): repetitions and order lost
getitem_generator_dedup(h, self, key) ==
    [dict |-> self, it |-> SetToSeq(set(key)), pos |-> 0, lazy |-> TRUE, buf |-> <<>>]
\* (self[k] for k in key): a generator; nothing is looked up yet
getitem_generator(h, self, key) ==
    [dict |-> self, it |-> key.items, pos |-> 0, lazy |-> TRUE, buf |-> <<>>]

\* dictb((k, self[k]) for k in key): all of self's entries instead of key's
getitem_all(h, self, key) ==
    IF \A k \in set(key) : k \in DOMAIN h[self].items
    THEN LET h1 == __init__(h, h[self].items)
         IN  Return(h1, "dictb", NoneObj, Len(h1), NoGen)
    ELSE Raise(h, "KeyError")
\* dictb((k, self[k]) for k in key)
getitem_dictb(h, self, key) ==
    IF \A k \in set(key) : k \in DOMAIN h[self].items
    THEN LET h1 == __init__(h, [k \in set(key) |-> h[self].items[k]])
         IN  Return(h1, "dictb", NoneObj, Len(h1), NoGen)
    ELSE Raise(h, "KeyError")

__getitem__(h, self, key) ==
    IF isinstance(key, "Hashable") THEN dict_getitem(h, self, key)
    ELSE IF ~isinstance(key, "Iterable") THEN Raise(h, "TypeError")
    ELSE IF set(key) \subseteq _viewkeys(h, self)
         THEN IF isinstance(key, "Sequence")
              THEN Return(h, "generator", NoneObj, 0, getitem_generator(h, self, key))
              ELSE IF isinstance(key, "Set") THEN getitem_dictb(h, self, key)
              ELSE Raise(h, "KeyError")
         ELSE Raise(h, "KeyError")

\* next(g): resumes the generator's frame, which evaluates self[k] for the next
\* k of the key's iterator; a list iterator hands out the stored element.
\* Yields [gen, exc, val]; an exception or the end finishes the generator.
next(h, g) ==
    IF g.pos >= Len(g.it)
    THEN [gen |-> g, exc |-> "StopIteration", val |-> NoneObj]
    ELSE IF ~g.lazy
    THEN [gen |-> [g EXCEPT !.pos = @ + 1], exc |-> "", val |-> g.buf[g.pos + 1]]
    ELSE LET r == __getitem__(h, g.dict, IntObj(g.it[g.pos + 1]))
         IN  IF r.exc = ""
             THEN [gen |-> [g EXCEPT !.pos = @ + 1], exc |-> "", val |-> r.val]
             ELSE [gen |-> [g EXCEPT !.pos = Len(g.it)], exc |-> r.exc, val |-> NoneObj]

\* tuple(g): the values g yields when consumed at once, and how it ended
RECURSIVE tuple(_, _)
tuple(h, g) ==
    LET n == next(h, g)
    IN  IF n.exc # "" THEN [vals |-> <<>>, exc |-> n.exc]
        ELSE LET rest == tuple(h, n.gen)
             IN  [vals |-> <<n.val>> \o rest.vals, exc |-> rest.exc]

\* dict.update(self, d)
update(h, self, d) ==
    LET old == h[self].items
    IN  [h EXCEPT ![self].items =
            [k \in DOMAIN old \cup DOMAIN d |-> IF k \in DOMAIN d THEN d[k] ELSE old[k]]]

\* zip that pads the shorter argument with None (0 stands for the key None)
zip_longest(a, b) ==
    [i \in 1 .. (IF Len(a) >= Len(b) THEN Len(a) ELSE Len(b)) |->
        <<IF i <= Len(a) THEN a[i] ELSE 0, IF i <= Len(b) THEN b[i] ELSE NoneObj>>]
\* zip that pairs in reverse
zip_reversed(a, b) ==
    [i \in 1 .. Min(Len(a), Len(b)) |-> <<a[i], b[Min(Len(a), Len(b)) + 1 - i]>>]
\* zip(key, value)
zip(a, b) == [i \in 1 .. Min(Len(a), Len(b)) |-> <<a[i], b[i]>>]

\* {k: v for k, v in pairs}: a later pair replaces an earlier one with its key
dict_of(pairs) ==
    [k \in {pairs[i][1] : i \in DOMAIN pairs} |->
        pairs[Last({i \in DOMAIN pairs : pairs[i][1] = k})][2]]

\* {k: value for k in key}, over the first element only
uniform_first(key, value) ==
    [k \in {key.items[i] : i \in DOMAIN key.items \cap {1}} |-> value]
\* {k: value for k in key}
uniform(key, value) == [k \in set(key) |-> value]

dict_setitem(h, self, key, value) ==
    update(h, self, [k \in {key.items[1]} |-> value])

__setitem__(h, self, key, value) ==
    IF isinstance(key, "Hashable")
    THEN Return(dict_setitem(h, self, key, value), "none", NoneObj, 0, NoGen)
    ELSE IF isinstance(key, "Sequence") /\ isinstance(value, "Sequence")
    THEN Return(update(h, self, dict_of(zip(key.items, elems(value)))),
                "none", NoneObj, 0, NoGen)
    ELSE IF isinstance(key, "Iterable")
    THEN Return(update(h, self, uniform(key, value)), "none", NoneObj, 0, NoGen)
    ELSE Raise(h, "KeyError")

dict_delitem(h, self, key) ==
    LET k == key.items[1]
        old == h[self].items
    IN  IF key.shape = "int" /\ k \in DOMAIN old
        THEN Return([h EXCEPT ![self].items = [j \in DOMAIN old \ {k} |-> old[j]]],
                    "none", NoneObj, 0, NoGen)
        ELSE Raise(h, "KeyError")

\* for k in keyset: del self[k]
RECURSIVE del_each(_, _, _)
del_each(h, self, ks) ==
    IF ks = <<>> THEN Return(h, "none", NoneObj, 0, NoGen)
    ELSE LET r == dict_delitem(h, self, IntObj(Head(ks)))
         IN  IF r.exc # "" THEN r ELSE del_each(r.heap, self, Tail(ks))

\* __delitem__ without the subset test: deletes until a key is missing
delitem_unchecked(h, self, key) ==
    IF isinstance(key, "Hashable") THEN dict_delitem(h, self, key)
    ELSE IF ~isinstance(key, "Iterable") THEN Raise(h, "TypeError")
    ELSE del_each(h, self, SetToSeq(set(key)))
__delitem__(h, self, key) ==
    IF isinstance(key, "Hashable") THEN dict_delitem(h, self, key)
    ELSE IF ~isinstance(key, "Iterable") THEN Raise(h, "TypeError")
    ELSE LET keyset == set(key)
         IN  IF keyset \subseteq _viewkeys(h, self)
             THEN del_each(h, self, SetToSeq(keyset))
             ELSE Raise(h, "KeyError")

---------------------------------------------------------------------------
(* Set operations.  The right operand is a heap object: a dictb (a Mapping)
   or a plain set of keys, whose items map each element to None. *)

Mapping(h, other) == h[other].cls = "dictb"

\* set(other): the keys of a mapping, the elements of a set
set_of(h, other) == DOMAIN h[other].items

\* dictb((k, value(k)) for k in ks), given each value(k) as a call's return:
\* the first call that raises ends the construction
dictb_from(h, looked) ==
    IF \E k \in DOMAIN looked : looked[k].exc # ""
    THEN Raise(h, "KeyError")
    ELSE LET h1 == __init__(h, [k \in DOMAIN looked |-> looked[k].val])
         IN  Return(h1, "dictb", NoneObj, Len(h1), NoGen)

\* a new plain set
new_set(h, S) ==
    LET h1 == Append(h, [cls |-> "set", items |-> [k \in S |-> NoneObj],
                         _viewkeys |-> NoView])
    IN  Return(h1, "set", NoneObj, Len(h1), NoGen)

__sub__(h, self, other) ==
    dictb_from(h, [k \in _viewkeys(h, self) \ set_of(h, other) |->
                      __getitem__(h, self, IntObj(k))])

__and__(h, self, other) ==
    dictb_from(h, [k \in _viewkeys(h, self) \cap set_of(h, other) |->
                      __getitem__(h, self, IntObj(k))])

__rand__(h, self, other) == new_set(h, set_of(h, other) \cap _viewkeys(h, self))

\* the value expression with the operands swapped: other's value first
value_for_other_first(h, self, other, k) ==
    IF Mapping(h, other) /\ k \in DOMAIN h[other].items
    THEN __getitem__(h, other, IntObj(k))
    ELSE IF k \in DOMAIN h[self].items THEN __getitem__(h, self, IntObj(k))
    ELSE Return(h, "value", NoneObj, 0, NoGen)
\* self[k] if k in self else other[k] if isinstance(other, Mapping) else None
value_for(h, self, other, k) ==
    IF k \in DOMAIN h[self].items THEN __getitem__(h, self, IntObj(k))
    ELSE IF Mapping(h, other) THEN __getitem__(h, other, IntObj(k))
    ELSE Return(h, "value", NoneObj, 0, NoGen)

\* the union computed in place: self.update(...); return self
or_inplace(h, self, other) ==
    LET looked == [k \in _viewkeys(h, self) \cup set_of(h, other) |->
                      value_for(h, self, other, k)]
    IN  Return(update(h, self, [k \in DOMAIN looked |-> looked[k].val]),
               "dictb", NoneObj, self, NoGen)
__or__(h, self, other) ==
    dictb_from(h, [k \in _viewkeys(h, self) \cup set_of(h, other) |->
                      value_for(h, self, other, k)])

__ror__(h, self, other) == new_set(h, set_of(h, other) \cup _viewkeys(h, self))

__xor__(h, self, other) ==
    dictb_from(h, [k \in (_viewkeys(h, self) \ set_of(h, other))
                         \cup (set_of(h, other) \ _viewkeys(h, self)) |->
                      value_for(h, self, other, k)])

__rxor__(h, self, other) ==
    new_set(h, (set_of(h, other) \ _viewkeys(h, self))
               \cup (_viewkeys(h, self) \ set_of(h, other)))

\* set.add(k) on a plain set
set_add(h, id, k) ==
    LET old == h[id].items
    IN  Return([h EXCEPT ![id].items = [j \in DOMAIN old \cup {k} |-> NoneObj]],
               "none", NoneObj, 0, NoGen)

---------------------------------------------------------------------------
(* State *)

VARIABLES
    heap,    \* the objects alive, by id
    self,    \* the dictb under test
    other,   \* the right operand of a set operator (0: none)
    pc,      \* "idle": between calls; "done": a call has returned; ...
    call,    \* the call that returned last: [op, key, value]
    pre,     \* the heap as that call found it (<<>> once it was written since)
    ret,     \* what it returned: [exc, kind, val, ref]
    gen,     \* the generator it returned, as consumed so far
    out,     \* the values the generator has yielded
    dirty    \* whether self was written since the generator was made

vars == <<heap, self, other, pc, call, pre, ret, gen, out, dirty>>

NoCall == [op |-> "", key |-> NoneObj, value |-> NoneObj]
NoRet == [exc |-> "", kind |-> "none", val |-> NoneObj, ref |-> 0]
Returned(r) == [exc |-> r.exc, kind |-> r.kind, val |-> r.val, ref |-> r.ref]

IntVals == {IntObj(n) : n \in Ints}
TupleVals == {TupleObj(s) : s \in SeqsUpTo(Ints, MaxLen)}

HashableKeys == {IntObj(k) : k \in Keys}
ListKeys == {ListObj(s) : s \in SeqsUpTo(Keys, MaxLen)}
SetKeys == {SetObj(S) : S \in SUBSET Keys}
DictKeys == {DictObj(S) : S \in SUBSET Keys}
KeyArgs == HashableKeys \cup ListKeys \cup SetKeys \cup DictKeys \cup {OpaqueObj}

\* dictb(items) for int-valued items over any set of keys
InitItems == UNION {[S -> IntVals] : S \in SUBSET Keys}

Init ==
    /\ \E items \in InitItems : heap = __init__(<<>>, items)
    /\ self = 1
    /\ other = 0
    /\ pc = "idle"
    /\ call = NoCall
    /\ pre = <<>>
    /\ ret = NoRet
    /\ gen = NoGen
    /\ out = <<>>
    /\ dirty = FALSE

\* The caller gets r back from the call c.
Called(c, r) ==
    /\ heap' = r.heap
    /\ pre' = heap
    /\ call' = c
    /\ ret' = Returned(r)
    /\ gen' = r.gen
    /\ pc' = "done"
    /\ UNCHANGED <<self, other, out, dirty>>

\* self[key]
GetItem ==
    /\ pc = "idle"
    /\ \E key \in KeyArgs :
          Called([op |-> "getitem", key |-> key, value |-> NoneObj],
                 __getitem__(heap, self, key))

\* self[key] = value; a tuple value goes with a list key only, so that the
\* values stored stay ints
SetItem ==
    /\ pc = "idle"
    /\ \E key \in KeyArgs :
          \E value \in IF key.shape = "list" THEN IntVals \cup TupleVals ELSE IntVals :
             Called([op |-> "setitem", key |-> key, value |-> value],
                    __setitem__(heap, self, key, value))

\* del self[key]
DelItem ==
    /\ pc = "idle"
    /\ \E key \in KeyArgs :
          Called([op |-> "delitem", key |-> key, value |-> NoneObj],
                 __delitem__(heap, self, key))

\* The caller drops what the call returned; only self stays alive.
Discard ==
    /\ pc = "done"
    /\ heap' = SubSeq(heap, 1, 1)
    /\ pc' = "idle"
    /\ call' = NoCall
    /\ pre' = <<>>
    /\ ret' = NoRet
    /\ gen' = NoGen
    /\ UNCHANGED <<self, other, out, dirty>>

Next == GetItem \/ SetItem \/ DelItem \/ Discard

Spec == Init /\ [][Next]_vars

---------------------------------------------------------------------------
(* A single write of any key shape with any value shape, on a fresh dictb *)

SetItemAny ==
    /\ pc = "idle"
    /\ \E key \in KeyArgs :
          \E value \in IntVals \cup TupleVals \cup {NoneObj} :
             Called([op |-> "setitem", key |-> key, value |-> value],
                    __setitem__(heap, self, key, value))

NextShapes == SetItemAny

SpecShapes == Init /\ [][NextShapes]_vars

---------------------------------------------------------------------------
(* A sequence read whose generator is consumed one element at a time, with
   writes and deletes of single keys in between *)

\* self[ks] for a list ks
GetItemList ==
    /\ pc = "idle"
    /\ \E key \in ListKeys :
          Called([op |-> "getitem", key |-> key, value |-> NoneObj],
                 __getitem__(heap, self, key))

Iterating == pc = "done" /\ ret.kind = "generator"

\* next(gen): pc becomes the exception that ends the generator
Consume ==
    /\ Iterating
    /\ LET n == next(heap, gen)
       IN  /\ gen' = n.gen
           /\ out' = IF n.exc = "" THEN Append(out, n.val) ELSE out
           /\ pc' = IF n.exc = "" THEN pc ELSE n.exc
    /\ UNCHANGED <<heap, self, other, call, pre, ret, dirty>>

\* self[k] = v while the generator is suspended
SetBetween ==
    /\ Iterating
    /\ \E key \in HashableKeys, value \in IntVals :
          heap' = __setitem__(heap, self, key, value).heap
    /\ dirty' = TRUE
    /\ pre' = <<>>
    /\ UNCHANGED <<self, other, pc, call, ret, gen, out>>

\* del self[k] while the generator is suspended
DelBetween ==
    /\ Iterating
    /\ \E key \in HashableKeys :
          LET r == __delitem__(heap, self, key)
          IN  r.exc = "" /\ heap' = r.heap
    /\ dirty' = TRUE
    /\ pre' = <<>>
    /\ UNCHANGED <<self, other, pc, call, ret, gen, out>>

NextGen == GetItemList \/ Consume \/ SetBetween \/ DelBetween

SpecGen == Init /\ [][NextGen]_vars

---------------------------------------------------------------------------
(* One set operator applied to a dictb and a right operand, and then a write
   to the container it returned *)

InitAlg ==
    /\ \E items \in InitItems :
          LET h1 == __init__(<<>>, items)
          IN  \/ \E o \in InitItems : heap = __init__(h1, o)
              \/ \E S \in SUBSET Keys : heap = new_set(h1, S).heap
    /\ self = 1
    /\ other = 2
    /\ pc = "idle"
    /\ call = NoCall
    /\ pre = <<>>
    /\ ret = NoRet
    /\ gen = NoGen
    /\ out = <<>>
    /\ dirty = FALSE

OpCall(name) == [op |-> name, key |-> NoneObj, value |-> NoneObj]

\* self - other
Sub == pc = "idle" /\ Called(OpCall("sub"), __sub__(heap, self, other))
\* self & other
And == pc = "idle" /\ Called(OpCall("and"), __and__(heap, self, other))
\* self | other
Or == pc = "idle" /\ Called(OpCall("or"), __or__(heap, self, other))
\* self ^ other
Xor == pc = "idle" /\ Called(OpCall("xor"), __xor__(heap, self, other))

\* other & self, other | self, other ^ self, which reach dictb's reflected
\* methods when other is no dictb
RAnd ==
    /\ pc = "idle" /\ ~Mapping(heap, other)
    /\ Called(OpCall("rand"), __rand__(heap, self, other))
ROr ==
    /\ pc = "idle" /\ ~Mapping(heap, other)
    /\ Called(OpCall("ror"), __ror__(heap, self, other))
RXor ==
    /\ pc = "idle" /\ ~Mapping(heap, other)
    /\ Called(OpCall("rxor"), __rxor__(heap, self, other))

\* The caller writes to the container the operator returned.
Mutated(r) ==
    /\ r.exc = ""
    /\ heap' = r.heap
    /\ pc' = "mutated"
    /\ UNCHANGED <<self, other, call, pre, ret, gen, out, dirty>>

ResultSetItem ==
    /\ pc = "done" /\ ret.kind = "dictb"
    /\ \E key \in HashableKeys, value \in IntVals :
          Mutated(__setitem__(heap, ret.ref, key, value))

ResultDelItem ==
    /\ pc = "done" /\ ret.kind = "dictb"
    /\ \E key \in HashableKeys : Mutated(__delitem__(heap, ret.ref, key))

ResultAdd ==
    /\ pc = "done" /\ ret.kind = "set"
    /\ \E k \in Keys : Mutated(set_add(heap, ret.ref, k))

NextAlg ==
    \/ Sub \/ And \/ Or \/ Xor
    \/ RAnd \/ ROr \/ RXor
    \/ ResultSetItem \/ ResultDelItem \/ ResultAdd

SpecAlg == InitAlg /\ [][NextAlg]_vars

---------------------------------------------------------------------------
(* Properties of the subscript operators *)

Items == heap[self].items
PreItems == pre[self].items
KeySet == Range(call.key.items)
Batch == call.key.shape \in {"list", "set", "dict"}

\* C1: a batch delete whose keys are all present removes exactly those keys and
\* keeps every other entry; otherwise it raises KeyError and leaves the dictb
\* as it was, the keys of the batch that were present included.
C1_BatchDeleteAllOrNothing ==
    (pc = "done" /\ call.op = "delitem" /\ Batch) =>
        IF KeySet \subseteq DOMAIN PreItems
        THEN /\ ret.exc = ""
             /\ DOMAIN Items = DOMAIN PreItems \ KeySet
             /\ \A k \in DOMAIN Items : Items[k] = PreItems[k]
        ELSE /\ ret.exc = "KeyError"
             /\ heap[self] = pre[self]

C1_Witness ==
    /\ pc = "done" /\ call.op = "delitem" /\ call.key.shape = "list"
    /\ ret.exc = "KeyError"
    /\ KeySet \cap DOMAIN PreItems # {}
    /\ KeySet \cap DOMAIN Items # {}

\* What tuple(self[ks]) gives right after the write.
ReadBack == tuple(heap, __getitem__(heap, self, call.key).gen)
PositionalWrite ==
    /\ pc = "done" /\ call.op = "setitem"
    /\ call.key.shape = "list" /\ call.value.shape = "tuple"

\* C2 as stated: after self[ks] = vs with len(ks) = len(vs), tuple(self[ks])
\* is vs.
C2_RoundTrip_Original ==
    (PositionalWrite /\ Len(call.key.items) = Len(call.value.items)) =>
        ReadBack.vals = elems(call.value)

\* C2, amended: after self[ks] = vs with len(ks) = len(vs), tuple(self[ks])
\* has at each position i the value vs[j] of the last position j where ks[j] =
\* ks[i]; it is vs itself when the keys of ks are pairwise distinct.
C2_RoundTrip ==
    (PositionalWrite /\ Len(call.key.items) = Len(call.value.items)) =>
        LET ks == call.key.items
            vs == call.value.items
        IN  /\ ReadBack.exc = "StopIteration"
            /\ ReadBack.vals =
                 [i \in DOMAIN ks |->
                    IntObj(vs[Last({j \in DOMAIN ks : ks[j] = ks[i]})])]
            /\ (\A i, j \in DOMAIN ks : ks[i] = ks[j] => i = j)
                  => ReadBack.vals = elems(call.value)

C2_Witness ==
    /\ PositionalWrite
    /\ Len(call.key.items) = 2 /\ Len(call.value.items) = 2
    /\ call.key.items[1] # call.key.items[2]
    /\ call.value.items[1] # call.value.items[2]
    /\ ReadBack.vals = elems(call.value)

\* C5: self[S] for a set S of present keys returns a new dictb whose keys are
\* exactly S, with self's values (so self[all keys] == self); for any other set
\* it raises KeyError; self is unchanged either way.
C5_SetRead ==
    (pc = "done" /\ call.op = "getitem" /\ call.key.shape = "set") =>
        /\ heap[self] = pre[self]
        /\ IF KeySet \subseteq DOMAIN PreItems
           THEN /\ ret.exc = "" /\ ret.kind = "dictb"
                /\ ret.ref \in DOMAIN heap /\ ret.ref # self
                /\ DOMAIN heap[ret.ref].items = KeySet
                /\ \A k \in KeySet : heap[ret.ref].items[k] = PreItems[k]
                /\ (KeySet = DOMAIN PreItems => heap[ret.ref].items = Items)
           ELSE ret.exc = "KeyError"

C5_Witness ==
    /\ pc = "done" /\ call.op = "getitem" /\ call.key.shape = "set"
    /\ ret.kind = "dictb"
    /\ KeySet # {} /\ KeySet # DOMAIN Items

\* C6: whatever subscript writes and deletes have run, whether they returned
\* or raised, the key view the operators use is the set of keys of the dict.
C6_KeyViewIsLive == _viewkeys(heap, self) = DOMAIN heap[self].items

C6_Witness ==
    /\ pc = "done" /\ call.op \in {"setitem", "delitem"}
    /\ DOMAIN Items # DOMAIN PreItems
    /\ _viewkeys(heap, self) # DOMAIN PreItems

\* C8: self[ks] = vs for a list ks and a tuple vs assigns ks[i] = vs[i] for the
\* positions i up to min(len(ks), len(vs)) and nothing else: no key is inserted
\* or changed on behalf of a surplus position, nothing is raised, every key
\* that is not paired keeps its entry.
C8_PositionalWriteTruncates ==
    PositionalWrite =>
        LET ks == call.key.items
            vs == call.value.items
            n == IF Len(ks) <= Len(vs) THEN Len(ks) ELSE Len(vs)
            paired == {ks[i] : i \in 1 .. n}
        IN  /\ ret.exc = ""
            /\ DOMAIN Items = DOMAIN PreItems \cup paired
            /\ \A k \in paired :
                  \E i \in 1 .. n :
                     /\ ks[i] = k /\ Items[k] = IntObj(vs[i])
                     /\ \A j \in 1 .. n : ks[j] = k => j <= i
            /\ \A k \in DOMAIN Items \ paired : Items[k] = PreItems[k]

C8_Witness ==
    /\ PositionalWrite
    /\ Len(call.key.items) = 2 /\ Len(call.value.items) = 1
    /\ call.key.items[2] # call.key.items[1]
    /\ call.key.items[2] \notin DOMAIN Items
    /\ call.key.items[1] \notin DOMAIN PreItems

\* C9: self[ks] = v for a list or set ks and a value v that is no sequence
\* gives every element of ks the value v and keeps every other entry; with a
\* set ks this is so for a sequence v too.
C9_UniformWrite ==
    (/\ pc = "done" /\ call.op = "setitem"
     /\ \/ call.key.shape \in {"list", "set"} /\ call.value.shape \notin {"tuple", "list"}
        \/ call.key.shape = "set") =>
        /\ ret.exc = ""
        /\ DOMAIN Items = DOMAIN PreItems \cup KeySet
        /\ \A k \in KeySet : Items[k] = call.value
        /\ \A k \in DOMAIN Items \ KeySet : Items[k] = PreItems[k]

C9_Witness ==
    /\ pc = "done" /\ call.op = "setitem"
    /\ call.key.shape = "set" /\ Cardinality(KeySet) = 2
    /\ call.value.shape = "tuple" /\ Len(call.value.items) = 2
    /\ \A k \in KeySet : Items[k] = call.value
    /\ KeySet \cap DOMAIN PreItems # {}

---------------------------------------------------------------------------
(* Properties of the sequence read *)

ListRead == call.op = "getitem" /\ call.key.shape = "list"

\* C4: self[ks] for a list ks of present keys returns a generator which,
\* consumed with no write in between, yields len(ks) values, the i-th being
\* self[ks[i]]; if some element of ks is no key, the call itself raises
\* KeyError and nothing is yielded.
C4_SequenceRead ==
    (ListRead /\ ~dirty) =>
        IF KeySet \subseteq DOMAIN PreItems
        THEN /\ ret.exc = "" /\ ret.kind = "generator"
             /\ pc \in {"done", "StopIteration"}
             /\ Len(out) <= Len(call.key.items)
             /\ \A i \in DOMAIN out :
                   out[i] = dict_getitem(heap, self, IntObj(call.key.items[i])).val
             /\ pc = "StopIteration" => Len(out) = Len(call.key.items)
        ELSE /\ ret.exc = "KeyError" /\ ret.kind = "none"
             /\ pc = "done" /\ out = <<>>

C4_Witness ==
    /\ ListRead /\ pc = "StopIteration" /\ ~dirty
    /\ Len(out) = 2
    /\ call.key.items[1] = call.key.items[2]

\* C10: the call self[ks] only tests membership; each value is looked up when
\* its element is consumed.  A consumption yields the value the key has then
\* (the new one if it was overwritten since the call) and raises KeyError if
\* the key was deleted since, the earlier elements having been yielded; with no
\* write in between, the values yielded are those of the time of the call.
C10_LazyLookup ==
    /\ [][(Iterating /\ heap' = heap /\ (gen' # gen \/ pc' # pc)) =>
            IF gen.pos = Len(gen.it)
            THEN pc' = "StopIteration" /\ out' = out
            ELSE LET k == gen.it[gen.pos + 1]
                 IN  IF k \in DOMAIN Items
                     THEN pc' = "done" /\ out' = Append(out, Items[k])
                     ELSE pc' = "KeyError" /\ out' = out /\ Len(out) = gen.pos]_vars
    /\ [][(pc = "idle" /\ pc' = "done") => out' = <<>> /\ heap' = heap]_vars
    /\ []((ListRead /\ ~dirty) =>
            \A i \in DOMAIN out : out[i] = PreItems[call.key.items[i]])

C10_Witness ==
    /\ ListRead /\ pc = "KeyError" /\ dirty
    /\ Len(call.key.items) = 2 /\ Len(out) = 1
    /\ call.key.items[2] \notin DOMAIN Items
    /\ call.key.items[1] \in DOMAIN Items /\ out[1] = Items[call.key.items[1]]

---------------------------------------------------------------------------
(* Properties of the set operators *)

SelfItems == pre[self].items
OtherItems == pre[other].items
Result == heap[ret.ref].items

KeysExpected ==
    CASE call.op \in {"sub"}         -> DOMAIN SelfItems \ DOMAIN OtherItems
      [] call.op \in {"and", "rand"} -> DOMAIN SelfItems \cap DOMAIN OtherItems
      [] call.op \in {"or", "ror"}   -> DOMAIN SelfItems \cup DOMAIN OtherItems
      [] call.op \in {"xor", "rxor"} ->
            {k \in DOMAIN SelfItems \cup DOMAIN OtherItems :
                ~(k \in DOMAIN SelfItems /\ k \in DOMAIN OtherItems)}

\* C3: self - o, self & o, self | o and self ^ o return a dictb whose keys are
\* the difference, intersection, union and symmetric difference of the keys
\* of self and of o, each key k with self[k] if k is in self, else o[k] if o
\* is a mapping, else None.
C3_SetAlgebraValues ==
    (pc = "done" /\ call.op \in {"sub", "and", "or", "xor"}) =>
        /\ ret.exc = "" /\ ret.kind = "dictb"
        /\ DOMAIN Result = KeysExpected
        /\ \A k \in DOMAIN Result :
              Result[k] = IF k \in DOMAIN SelfItems THEN SelfItems[k]
                          ELSE IF pre[other].cls = "dictb" THEN OtherItems[k]
                          ELSE NoneObj

C3_Witness ==
    /\ pc = "done" /\ call.op = "or" /\ pre[other].cls = "dictb"
    /\ \E k \in DOMAIN SelfItems \cap DOMAIN OtherItems :
          SelfItems[k] # OtherItems[k] /\ Result[k] = SelfItems[k]
    /\ \E k \in DOMAIN OtherItems \ DOMAIN SelfItems : Result[k] = OtherItems[k]

\* C7: a set operator, reflected or not, leaves self and the other operand as
\* they were and returns a container that is neither of them; a later write to
\* that container changes neither.
C7_OperatorsArePure ==
    (pc \in {"done", "mutated"} /\ call.op \in
        {"sub", "and", "or", "xor", "rand", "ror", "rxor"}) =>
        /\ ret.exc = ""
        /\ ret.ref \in DOMAIN heap /\ ret.ref \notin {self, other}
        /\ ret.ref \notin DOMAIN pre
        /\ heap[self] = pre[self]
        /\ heap[other] = pre[other]

C7_Witness ==
    /\ pc = "mutated" /\ call.op = "or"
    /\ DOMAIN Result # KeysExpected
    /\ DOMAIN OtherItems \ DOMAIN SelfItems # {}

=============================================================================
